---------------------------- MODULE Spec2Model ----------------------------
(***************************************************************************)
(* A model of src/src/main.rs: the CVM distinct-elements estimator (Cvm),  *)
(* the ensemble built on it (CombinedCvm) and the driver's choice between  *)
(* them (run_test).                                                        *)
(*                                                                         *)
(* Randomness (rand::random) is a nondeterministic input of each step.     *)
(* Machine integers keep their width: a number is held as its base-256     *)
(* digits, least significant first and without leading zeros, so that a    *)
(* u32 is a number of at most 4 digits and a usize one of at most 8.       *)
(***************************************************************************)
EXTENDS Integers, Sequences, FiniteSets, TLC

\* ------------------------------------------------------------- bounds
\* Element values fed to the estimators are 1..NumValues.
NumValues == 2
\* Capacities given to the constructors are 0..MaxCap.
MaxCap == 3
\* A lone estimator takes no further element once it has swept this often.
MaxRounds == 34
\* extend is called with iterators of at most this many elements,
MaxIter == 2
\* and on a lone estimator only while it has swept fewer times than this
\* (every state an extend leads to is one that adds lead to as well).
MaxExtendRounds == 4
\* The late states start this many sweeps before the u32 counter is full, and
\* are followed for this many sweeps after it.
LateGap == 2
\* Ensembles are built with 0..MaxLen members.
MaxLen == 3
\* An ensemble is fed at most this many elements in all,
MaxFeed == 3
\* and calls Cvm::add at most this often in all (members times elements).
MaxCalls == 6
\* The ensembles whose members' states are given: how many members, and the
\* capacity they were built with.
MaxMembers == 5
ReportCapacity == 130

\* ---------------------------------------------------- program constants
\* rounds: u32
U32Bits == 32
\* usize on the 64-bit targets the program is built for
UsizeBits == 64
\* the clamp of rounds in Cvm::estimate
RoundsClamp == 32

Values == 1..NumValues

\* ------------------------------------------------- machine arithmetic
\* The radix of the digits of a number.
Radix == 2^8

RECURSIVE ToN(_)
\* The number n >= 0 as digits.
ToN(n) == IF n = 0 THEN <<>> ELSE <<n % Radix>> \o ToN(n \div Radix)

RECURSIVE ToInt(_)
\* The value of the digits d (only for numbers below 2^31).
ToInt(d) == IF d = <<>> THEN 0 ELSE Head(d) + Radix * ToInt(Tail(d))

Zero == <<>>
One == <<1>>

RECURSIVE StripN(_)
\* d without its leading (most significant) zero digits.
StripN(d) ==
    IF d = <<>> THEN <<>>
    ELSE IF d[Len(d)] = 0 THEN StripN(SubSeq(d, 1, Len(d) - 1))
    ELSE d

RECURSIVE AddCarry(_, _, _)
AddCarry(a, b, carry) ==
    IF a = <<>> /\ b = <<>>
    THEN IF carry = 0 THEN <<>> ELSE <<carry>>
    ELSE LET x == (IF a = <<>> THEN 0 ELSE Head(a))
                  + (IF b = <<>> THEN 0 ELSE Head(b)) + carry
         IN  <<x % Radix>>
             \o AddCarry(IF a = <<>> THEN <<>> ELSE Tail(a),
                         IF b = <<>> THEN <<>> ELSE Tail(b),
                         x \div Radix)

\* a + b, exactly.
AddN(a, b) == AddCarry(a, b, 0)

RECURSIVE MulDigit(_, _, _)
\* a * d + carry for one digit d.
MulDigit(a, d, carry) ==
    IF a = <<>>
    THEN IF carry = 0 THEN <<>> ELSE <<carry>>
    ELSE LET x == Head(a) * d + carry
         IN  <<x % Radix>> \o MulDigit(Tail(a), d, x \div Radix)

RECURSIVE MulN(_, _)
\* a * b, exactly.
MulN(a, b) ==
    IF b = <<>> \/ a = <<>> THEN <<>>
    ELSE LET rest == MulN(a, Tail(b))
         IN  AddN(StripN(MulDigit(a, Head(b), 0)),
                  IF rest = <<>> THEN <<>> ELSE <<0>> \o rest)

RECURSIVE LessFrom(_, _, _)
LessFrom(a, b, i) ==
    IF i = 0 THEN FALSE
    ELSE IF a[i] # b[i] THEN a[i] < b[i]
    ELSE LessFrom(a, b, i - 1)

\* a < b
LessN(a, b) ==
    IF Len(a) # Len(b) THEN Len(a) < Len(b) ELSE LessFrom(a, b, Len(a))

\* a <= b
LeqN(a, b) == ~LessN(b, a)

RECURSIVE DivFrom(_, _, _, _)
\* The digits i..1 of a divided by n, with the remainder rem carried in from
\* the digits above; the quotient's digits, least significant first.
DivFrom(a, n, i, rem) ==
    IF i = 0 THEN <<>>
    ELSE LET x == rem * Radix + a[i]
         IN  DivFrom(a, n, i - 1, x % n) \o <<x \div n>>

\* a / n truncated, for an integer 0 < n < 2^23.
DivN(a, n) == StripN(DivFrom(a, n, Len(a), 0))

\* Whether a fits an unsigned integer of the given width.
Fits(a, bits) == Len(a) * 8 <= bits

\* a modulo 2^bits: what a wrapping operation of that width leaves.
Wrap(a, bits) ==
    IF Fits(a, bits) THEN a ELSE StripN(SubSeq(a, 1, bits \div 8))

\* The largest number of the given width.
MaxOf(bits) == [i \in 1..(bits \div 8) |-> Radix - 1]

RECURSIVE SubSmall(_, _)
\* a - n for an integer 0 <= n <= a, n below the radix.
SubSmall(a, n) ==
    IF n = 0 THEN a
    ELSE IF Head(a) >= n THEN StripN(<<Head(a) - n>> \o Tail(a))
    ELSE <<Head(a) + Radix - n>> \o SubSmall(Tail(a), 1)


RECURSIVE PowN(_, _)
\* base^exp, exactly, for an integer exp >= 0.
PowN(base, exp) == IF exp = 0 THEN One ELSE MulN(base, PowN(base, exp - 1))

\* An unsigned operation of the given width whose exact result is a: it
\* completes with a when a fits; otherwise it panics in a build with overflow
\* checks and wraps in a build without them.
Checked(a, bits, overflow_checks) ==
    [val |-> Wrap(a, bits), panicked |-> ~Fits(a, bits) /\ overflow_checks]

\* ----------------------------------------------------------------- Cvm
\* A Cvm::new whose memory starts with an element in it.
CvmNewSeeded(capacity) == [capacity |-> capacity, memory |-> {1}, rounds |-> Zero]

\* Cvm::new
CvmNew(capacity) == [capacity |-> capacity, memory |-> {}, rounds |-> Zero]

\* Cvm::should_keep: (0..coin_flips).all(|_| rand::random()). heads says
\* whether every coin drawn came up true; with no coin to draw the result is
\* true whatever heads is.
ShouldKeep(coin_flips, heads) == coin_flips = Zero \/ heads

\* A Cvm::estimate that does not clamp rounds.
CvmEstimateUnclamped(c, overflow_checks) ==
    Checked(MulN(ToN(Cardinality(c.memory)), PowN(ToN(2), ToInt(c.rounds))),
            UsizeBits, overflow_checks)

\* Cvm::estimate: [val, panicked].
CvmEstimate(c, overflow_checks) ==
    LET rounds == IF LessN(ToN(RoundsClamp), c.rounds)
                  THEN RoundsClamp ELSE ToInt(c.rounds)
        pow == Checked(PowN(ToN(2), rounds), UsizeBits, overflow_checks)
        prod == Checked(MulN(ToN(Cardinality(c.memory)), pow.val),
                        UsizeBits, overflow_checks)
    IN  IF pow.panicked THEN [val |-> Zero, panicked |-> TRUE] ELSE prod

\* Cvm::sweep with coins[e] the coin drawn for element e: [cvm, panicked].
\* retain runs before the increment, so a panicking increment leaves the
\* thinned memory and the old rounds behind.
CvmSweep(c, coins, overflow_checks) ==
    LET kept == {e \in c.memory : ShouldKeep(One, coins[e])}
        inc == Checked(AddN(c.rounds, One), U32Bits, overflow_checks)
    IN  [cvm |-> [c EXCEPT !.memory = kept,
                           !.rounds = IF inc.panicked THEN @ ELSE inc.val],
         panicked |-> inc.panicked]

\* A match that removes a kept value that is already in memory.
CvmMatchToggling(c, value, heads) ==
    IF value \in c.memory THEN [c EXCEPT !.memory = @ \ {value}]
    ELSE IF ShouldKeep(c.rounds, heads) THEN [c EXCEPT !.memory = @ \cup {value}]
    ELSE c

\* A match that leaves a value in memory when its coin flips fail.
CvmMatchKeepingOld(c, value, heads) ==
    IF ShouldKeep(c.rounds, heads) THEN [c EXCEPT !.memory = @ \cup {value}]
    ELSE c

\* The match of Cvm::add: the estimator after the insert/remove step.
CvmMatch(c, value, heads) ==
    IF c.rounds = Zero THEN [c EXCEPT !.memory = @ \cup {value}]
    ELSE IF ShouldKeep(c.rounds, heads) THEN [c EXCEPT !.memory = @ \cup {value}]
    ELSE IF value \in c.memory THEN [c EXCEPT !.memory = @ \ {value}]
    ELSE c

\* A sweep condition that fires one element early.
NeedsSweepEarly(mid) == Cardinality(mid.memory) + 1 >= mid.capacity

\* A sweep condition that waits until memory is over capacity.
NeedsSweepStrict(mid) == Cardinality(mid.memory) > mid.capacity

\* Whether Cvm::add sweeps after the insert/remove step left mid.
NeedsSweep(mid) == Cardinality(mid.memory) >= mid.capacity

\* Cvm::add: [cvm, panicked, swept].
CvmAdd(c, value, heads, coins, overflow_checks) ==
    LET mid == CvmMatch(c, value, heads)
    IN  IF NeedsSweep(mid)
        THEN LET s == CvmSweep(mid, coins, overflow_checks)
             IN  [cvm |-> s.cvm, panicked |-> s.panicked, swept |-> TRUE]
        ELSE [cvm |-> mid, panicked |-> FALSE, swept |-> FALSE]

\* Whether every coin Cvm::add drew with these inputs came up true.
AllHeads(c, value, heads, coins) ==
    LET mid == CvmMatch(c, value, heads)
    IN  /\ ShouldKeep(c.rounds, heads)
        /\ NeedsSweep(mid) => \A e \in mid.memory : coins[e]

\* The coin inputs one Cvm::add can draw on c: heads only when rounds > 0.
HeadsOf(c) == IF c.rounds = Zero THEN {TRUE} ELSE BOOLEAN
CoinsOf(mid) == IF NeedsSweep(mid) THEN [mid.memory -> BOOLEAN] ELSE {<<>>}

\* A run of adds on one estimator: the estimator, whether a panic ended the
\* run, how many sweeps completed, whether every coin drawn came up true, and
\* the retention decision of the latest add.
Run0(c) == [cvm |-> c, panicked |-> FALSE, swept |-> 0, heads |-> TRUE,
            kept |-> TRUE]

\* Every outcome of one more Cvm::add(value) after the run t.
AddOutcomes(t, value) ==
    IF t.panicked THEN {t}
    ELSE {LET r == CvmAdd(t.cvm, value, h, k, oc)
          IN  [cvm |-> r.cvm, panicked |-> r.panicked,
               swept |-> t.swept + (IF r.swept /\ ~r.panicked THEN 1 ELSE 0),
               heads |-> t.heads /\ AllHeads(t.cvm, value, h, k),
               kept |-> ShouldKeep(t.cvm.rounds, h)] :
          <<h, k, oc>> \in
              UNION {{<<h, k, oc>> : k \in CoinsOf(CvmMatch(t.cvm, value, h)),
                                     oc \in BOOLEAN} : h \in HeadsOf(t.cvm)}}

RECURSIVE ExtendOutcomes(_, _)
\* Cvm::extend: every outcome of add on each element of iter, in order.
ExtendOutcomes(t, iter) ==
    IF iter = <<>> THEN {t}
    ELSE UNION {ExtendOutcomes(t2, Tail(iter)) : t2 \in AddOutcomes(t, Head(iter))}

\* --------------------------------------------------------- CombinedCvm
\* A CombinedCvm::new without the check of len.
CombinedNewUnguarded(capacity, len) ==
    [cvms |-> [i \in 1..len |-> CvmNew(capacity)], panicked |-> FALSE]

\* CombinedCvm::new: [cvms, panicked]; it panics when len is 0.
CombinedNew(capacity, len) ==
    IF len = 0 THEN [cvms |-> <<>>, panicked |-> TRUE]
    ELSE [cvms |-> [i \in 1..len |-> CvmNew(capacity)], panicked |-> FALSE]

\* An ensemble in a run of adds: its members, whether a panic ended the run,
\* and for each member the values its add was called with, in order.
RECURSIVE CombinedAddFrom(_, _, _)
\* CombinedCvm::add, from member i on: c.add(value.clone()) on each member in
\* turn; a panic in one member's add leaves the members after it untouched.
CombinedAddFrom(e, value, i) ==
    IF e.panicked \/ i > Len(e.cvms) THEN {e}
    ELSE UNION {CombinedAddFrom(
                    [cvms |-> [e.cvms EXCEPT ![i] = t.cvm],
                     panicked |-> t.panicked,
                     received |-> [e.received EXCEPT ![i] = Append(@, value)]],
                    value, i + 1) :
                t \in AddOutcomes(Run0(e.cvms[i]), value)}

\* A CombinedCvm::add that leaves the first member out.
CombinedAddSkippingFirst(e, value) == CombinedAddFrom(e, value, 2)

\* CombinedCvm::add: every outcome.
CombinedAddOutcomes(e, value) == CombinedAddFrom(e, value, 1)

RECURSIVE CombinedExtendOutcomes(_, _)
\* CombinedCvm::extend: add on each element of iter, in order.
CombinedExtendOutcomes(e, iter) ==
    IF iter = <<>> THEN {e}
    ELSE UNION {CombinedExtendOutcomes(e2, Tail(iter)) :
                e2 \in CombinedAddOutcomes(e, Head(iter))}

\* An insertion that leaves the numbers in the order they came in.
InsertLast(s, x) == s \o <<x>>

RECURSIVE InsertSorted(_, _)
\* x put in its place in the ascending sequence s.
InsertSorted(s, x) ==
    IF s = <<>> THEN <<x>>
    ELSE IF LeqN(x, Head(s)) THEN <<x>> \o s
    ELSE <<Head(s)>> \o InsertSorted(Tail(s), x)

RECURSIVE SortN(_)
\* ests.sort(): the numbers of s in ascending order.
SortN(s) == IF s = <<>> THEN <<>> ELSE InsertSorted(SortN(Tail(s)), Head(s))

RECURSIVE SumN(_)
\* The exact sum of the numbers of s.
SumN(s) == IF s = <<>> THEN Zero ELSE AddN(Head(s), SumN(Tail(s)))

\* A CombinedCvm::estimate that divides by the number of members.
CombinedEstimateOverAll(cvms, overflow_checks) ==
    LET each == [i \in DOMAIN cvms |-> CvmEstimate(cvms[i], overflow_checks)]
        sorted == SortN([i \in DOMAIN cvms |-> each[i].val])
        ests == Tail(SubSeq(sorted, 1, Len(sorted) - 1))
    IN  [val |-> DivN(SumN(ests), Len(cvms)), panicked |-> FALSE]

\* A CombinedCvm::estimate that answers 0 when trimming leaves nothing.
CombinedEstimateLenient(cvms, overflow_checks) ==
    LET each == [i \in DOMAIN cvms |-> CvmEstimate(cvms[i], overflow_checks)]
        sorted == SortN([i \in DOMAIN cvms |-> each[i].val])
        ests == IF Len(sorted) <= 2 THEN <<>>
                ELSE SubSeq(sorted, 2, Len(sorted) - 1)
    IN  [val |-> IF ests = <<>> THEN Zero ELSE DivN(SumN(ests), Len(ests)),
         panicked |-> FALSE]

\* CombinedCvm::estimate: [val, panicked]. Vec::pop on an empty vector does
\* nothing, Vec::remove(0) on an empty vector panics, and so does a division
\* by zero.
CombinedEstimate(cvms, overflow_checks) ==
    LET each == [i \in DOMAIN cvms |-> CvmEstimate(cvms[i], overflow_checks)]
        sorted == SortN([i \in DOMAIN cvms |-> each[i].val])
        popped == IF sorted = <<>> THEN <<>>
                  ELSE SubSeq(sorted, 1, Len(sorted) - 1)
        ests == Tail(popped)
        sum == Checked(SumN(ests), UsizeBits, overflow_checks)
        failed == [val |-> Zero, panicked |-> TRUE]
    IN  IF \E i \in DOMAIN cvms : each[i].panicked THEN failed
        ELSE IF popped = <<>> THEN failed
        ELSE IF sum.panicked THEN failed
        ELSE IF Len(ests) = 0 THEN failed
        ELSE [val |-> DivN(sum.val, Len(ests)), panicked |-> FALSE]

\* ----------------------------------------------------------------- state
VARIABLES
    test,       \* run_test's argument: memory_capacity and instances
    kind,       \* what run_test built: "none", "Cvm" or "CombinedCvm"
    cvm,        \* the lone Cvm (kind = "Cvm")
    cvms,       \* CombinedCvm.cvms (kind = "CombinedCvm")
    panicked,   \* a panic has unwound the program
    last,       \* the operation that returned last, and what estimate returned
    observed,   \* history: the values passed to the lone Cvm's add
    sweeps,     \* history: the sweeps the lone Cvm completed
    heads,      \* history: every coin the lone Cvm drew came up true
    fed,        \* history: the values given to the ensemble, in order
    received    \* history: per member, the values its add was called with

vars == <<test, kind, cvm, cvms, panicked, last, observed, sweeps, heads, fed, received>>

NoCvm == CvmNew(0)
\* Option<usize>
None == <<>>
Some(n) == <<n>>
\* What is known of the operation that returned last: for an estimate the
\* value returned, for a lone estimator's add the value added, the retention
\* decision, whether the value was in memory before, and whether it swept.
Returned(op, ret) ==
    [op |-> op, ret |-> ret, value |-> 0,
     kept |-> FALSE, had |-> FALSE, swept |-> FALSE]
AddReturned(value, kept, had, swept) ==
    [op |-> "add", ret |-> Zero, value |-> value,
     kept |-> kept, had |-> had, swept |-> swept]

\* The iterators extend is called with.
Iters == UNION {[1..n -> Values] : n \in 0..MaxIter}

Init ==
    /\ test \in [memory_capacity : 0..MaxCap,
                 instances : {None} \cup {Some(n) : n \in 0..MaxLen}]
    /\ kind = "none"
    /\ cvm = NoCvm
    /\ cvms = <<>>
    /\ panicked = FALSE
    /\ last = Returned("none", Zero)
    /\ observed = {}
    /\ sweeps = Zero
    /\ heads = TRUE
    /\ fed = <<>>
    /\ received = <<>>

\* The first sweep count of the late states, and the last one followed.
LateStart == SubSmall(AddN(MaxOf(U32Bits), One), LateGap)
LateEnd == AddN(AddN(MaxOf(U32Bits), One), ToN(LateGap))

\* The lone estimator takes elements while its sweep count is in the window.
InWindow ==
    \/ LessN(sweeps, ToN(MaxRounds))
    \/ LeqN(LateStart, sweeps) /\ LessN(sweeps, LateEnd)

\* run_test with instances = None: Cvm::new(capacity)
NewCvm ==
    /\ kind = "none" /\ ~panicked
    /\ test.instances = None
    /\ cvm' = CvmNew(test.memory_capacity)
    /\ kind' = "Cvm"
    /\ last' = Returned("new", Zero)
    /\ UNCHANGED <<test, cvms, panicked, observed, sweeps, heads, fed, received>>

\* The lone estimator after the run t of adds on the values of iter.
CvmRan(t, iter, returned) ==
    /\ cvm' = t.cvm
    /\ panicked' = t.panicked
    /\ last' = IF t.panicked THEN last ELSE returned
    /\ observed' = observed \cup {iter[i] : i \in DOMAIN iter}
    /\ sweeps' = AddN(sweeps, ToN(t.swept))
    /\ heads' = (heads /\ t.heads)
    /\ UNCHANGED <<test, kind, cvms, fed, received>>

\* Cvm::add(value)
Add ==
    /\ kind = "Cvm" /\ ~panicked /\ InWindow
    /\ \E value \in Values :
         \E t \in AddOutcomes(Run0(cvm), value) :
            CvmRan(t, <<value>>,
                   AddReturned(value, t.kept, value \in cvm.memory, t.swept = 1))

\* Cvm::extend(iter)
Extend ==
    /\ kind = "Cvm" /\ ~panicked /\ LessN(sweeps, ToN(MaxExtendRounds))
    /\ \E iter \in Iters :
         \E t \in ExtendOutcomes(Run0(cvm), iter) :
            CvmRan(t, iter, Returned("extend", Zero))

\* An estimate that clamps the estimator's own rounds.
EstimateClampingInPlace ==
    /\ kind = "Cvm" /\ ~panicked
    /\ cvm' = [cvm EXCEPT !.rounds = IF LessN(ToN(RoundsClamp), @)
                                     THEN ToN(RoundsClamp) ELSE @]
    /\ last' = Returned("estimate", CvmEstimate(cvm, FALSE).val)
    /\ UNCHANGED <<test, kind, cvms, panicked, observed, sweeps, heads, fed, received>>

\* Cvm::estimate()
Estimate ==
    /\ kind = "Cvm" /\ ~panicked
    /\ \E overflow_checks \in BOOLEAN :
         LET r == CvmEstimate(cvm, overflow_checks)
         IN  /\ panicked' = r.panicked
             /\ last' = IF r.panicked THEN last ELSE Returned("estimate", r.val)
    /\ UNCHANGED <<test, kind, cvm, cvms, observed, sweeps, heads, fed, received>>

\* run_test with instances = Some(len): CombinedCvm::new(capacity, len)
NewCombined ==
    /\ kind = "none" /\ ~panicked
    /\ test.instances # None
    /\ LET r == CombinedNew(test.memory_capacity, test.instances[1])
       IN  /\ panicked' = r.panicked
           /\ cvms' = r.cvms
           /\ kind' = IF r.panicked THEN kind ELSE "CombinedCvm"
           /\ last' = IF r.panicked THEN last ELSE Returned("new", Zero)
           /\ received' = [i \in DOMAIN r.cvms |-> <<>>]
    /\ UNCHANGED <<test, cvm, observed, sweeps, heads, fed>>

\* The ensemble after the run e of adds on the values of iter.
CombinedRan(e, iter, op) ==
    /\ cvms' = e.cvms
    /\ panicked' = e.panicked
    /\ received' = e.received
    /\ fed' = fed \o iter
    /\ last' = IF e.panicked THEN last ELSE Returned(op, Zero)
    /\ UNCHANGED <<test, kind, cvm, observed, sweeps, heads>>

Ensemble == [cvms |-> cvms, panicked |-> FALSE, received |-> received]

\* The ensemble takes n more elements while that keeps it within its bounds.
CanFeed(n) ==
    /\ Len(fed) + n <= MaxFeed
    /\ Len(cvms) * (Len(fed) + n) <= MaxCalls

\* CombinedCvm::add(&value)
CombinedAdd ==
    /\ kind = "CombinedCvm" /\ ~panicked /\ CanFeed(1)
    /\ \E value \in Values :
         \E e \in CombinedAddOutcomes(Ensemble, value) :
            CombinedRan(e, <<value>>, "add")

\* CombinedCvm::extend(iter)
CombinedExtend ==
    /\ kind = "CombinedCvm" /\ ~panicked
    /\ \E iter \in Iters :
         /\ CanFeed(Len(iter))
         /\ \E e \in CombinedExtendOutcomes(Ensemble, iter) :
              CombinedRan(e, iter, "extend")

\* CombinedCvm::estimate()
CombinedEstimateCall ==
    /\ kind = "CombinedCvm" /\ ~panicked
    /\ \E overflow_checks \in BOOLEAN :
         LET r == CombinedEstimate(cvms, overflow_checks)
         IN  /\ panicked' = r.panicked
             /\ last' = IF r.panicked THEN last ELSE Returned("estimate", r.val)
    /\ UNCHANGED <<test, kind, cvm, cvms, observed, sweeps, heads, fed, received>>

Next ==
    \/ NewCvm
    \/ Add
    \/ Extend
    \/ Estimate
    \/ NewCombined
    \/ CombinedAdd
    \/ CombinedExtend
    \/ CombinedEstimateCall

Spec == Init /\ [][Next]_vars

\* The late states of a lone estimator: the states in which it has swept
\* LateStart times, the last sweep having emptied its memory. The program
\* reaches each of them: an estimator of capacity n that has seen a set of n or
\* more values (one or more when n is 0) sweeps whenever n of them are added
\* and kept, and a sweep whose coins all come up false empties the memory.
InitLate ==
    /\ test \in [memory_capacity : 0..MaxCap, instances : {None}]
    /\ kind = "Cvm"
    /\ cvm = [capacity |-> test.memory_capacity, memory |-> {},
              rounds |-> LateStart]
    /\ cvms = <<>>
    /\ panicked = FALSE
    /\ observed \in {s \in SUBSET Values :
                       s # {} /\ Cardinality(s) >= test.memory_capacity}
    /\ \E value \in observed, kept \in BOOLEAN, had \in BOOLEAN :
          last = AddReturned(value, kept, had, TRUE)
    /\ sweeps = LateStart
    /\ heads = FALSE
    /\ fed = <<>>
    /\ received = <<>>

NextLate ==
    \/ Add
    \/ Estimate

\* The lone estimator from its late states on.
SpecLate == InitLate /\ [][NextLate]_vars

\* A member of an ensemble of capacity ReportCapacity that holds size values
\* after rounds sweeps. The program reaches it on a stream of ReportCapacity
\* or more distinct values: the member fills up, its sweeps keep what the
\* coins allow, and the values that follow fail their coin flips.
Member(size, rounds) ==
    [capacity |-> ReportCapacity, memory |-> 1..size, rounds |-> ToN(rounds)]

\* Members that report 10, 20, 30, 40 and 1000.
Reports ==
    {Member(5, 1), Member(5, 2), Member(15, 1), Member(5, 3), Member(125, 3)}

\* An ensemble of up to MaxMembers members, each in one of the states of
\* Reports, about to be asked for its estimate. The histories, which no
\* estimate reads, start empty.
InitReports ==
    /\ \E n \in 1..MaxMembers :
          /\ test = [memory_capacity |-> ReportCapacity, instances |-> Some(n)]
          /\ cvms \in [1..n -> Reports]
          /\ received = [i \in 1..n |-> <<>>]
    /\ kind = "CombinedCvm"
    /\ cvm = NoCvm
    /\ panicked = FALSE
    /\ last = Returned("extend", Zero)
    /\ observed = {}
    /\ sweeps = Zero
    /\ heads = TRUE
    /\ fed = <<>>

\* CombinedCvm::estimate on the ensembles of InitReports.
SpecReports == InitReports /\ [][CombinedEstimateCall]_vars

\* ---------------------------------------------------------------- claims
Lone == kind = "Cvm"
Size(c) == Cardinality(c.memory)

\* C1: memory.size() < capacity holds immediately after each Cvm::add
\* returns, whatever the coins. Stated here for capacities >= 1 only (with
\* capacity 0 no size is below it), and already that fails: the one sweep an
\* add runs may keep every element.
C1_SizeBelowCapacityAfterAdd ==
    (Lone /\ ~panicked /\ last.op = "add" /\ cvm.capacity >= 1)
        => Size(cvm) < cvm.capacity

\* C2: between operations the size of memory is at most capacity. Stated for
\* capacities >= 1 only; it fails once a sweep has kept everything and one
\* more value is added and kept.
C2_SizeAtMostCapacity ==
    (Lone /\ cvm.capacity >= 1) => Size(cvm) <= cvm.capacity

\* C3: rounds is 0 on a new estimator, never decreases, and always equals the
\* number of sweeps performed so far.
C3_RoundsCountsSweeps ==
    /\ [](Lone /\ last.op = "new" => cvm.rounds = Zero)
    /\ [](Lone => cvm.rounds = sweeps)
    /\ [][Lone => ~LessN(cvm'.rounds, cvm.rounds)]_vars

\* memory.size() * 2^k as a number: the size shifted left by k bits.
Shifted(size, k) ==
    StripN([i \in 1..(k \div 8) |-> 0] \o ToN(size * 2^(k % 8)))

\* rounds > RoundsClamp, read off the digits.
AboveClamp(rounds) == Len(rounds) > 1 \/ (Len(rounds) = 1 /\ rounds[1] > RoundsClamp)

\* C4: in every state of a lone estimator estimate() returns
\* memory.size() * 2^min(rounds, 32): 0 while no element was received, and
\* for rounds above 32 what it returns for rounds = 32.
C4_EstimateIsSizeTimesPow ==
    Lone =>
      LET k == IF cvm.rounds = Zero THEN 0
               ELSE IF AboveClamp(cvm.rounds) THEN RoundsClamp
               ELSE cvm.rounds[1]
          expected == Shifted(Size(cvm), k)
      IN  /\ \A oc \in BOOLEAN :
                /\ CvmEstimate(cvm, oc) = [val |-> expected, panicked |-> FALSE]
                /\ AboveClamp(cvm.rounds) =>
                     CvmEstimate(cvm, oc)
                       = CvmEstimate([cvm EXCEPT !.rounds = ToN(RoundsClamp)], oc)
          /\ observed = {} => expected = Zero
          /\ (last.op = "estimate" /\ ~panicked) => last.ret = expected

\* C4's case: estimate returned a non-zero value with rounds above the clamp.
C4_Witness ==
    /\ Lone /\ last.op = "estimate"
    /\ AboveClamp(cvm.rounds)
    /\ last.ret # Zero

\* C5: estimate() only reads, on the lone estimator and on the ensemble: a
\* step in which it returns leaves every estimator as it was, and when the
\* operation before it was an estimate too it returns the same value.
C5_EstimateOnlyReads ==
    [][(last'.op = "estimate" /\ ~panicked')
          => /\ cvm' = cvm
             /\ cvms' = cvms
             /\ last.op = "estimate" => last'.ret = last.ret]_vars

\* C5's case: the ensemble's estimate returned a non-zero value.
C5_Witness ==
    /\ kind = "CombinedCvm" /\ ~panicked
    /\ last.op = "estimate" /\ last.ret # Zero

\* C6: a lone estimator of capacity >= 1 that was fed K <= capacity - 1
\* distinct values has rounds 0, holds exactly those values, and estimates K.
C6_ExactBelowCapacity ==
    (Lone /\ cvm.capacity >= 1 /\ Cardinality(observed) <= cvm.capacity - 1)
        => /\ cvm.rounds = Zero
           /\ cvm.memory = observed
           /\ Size(cvm) = Cardinality(observed)
           /\ \A oc \in BOOLEAN :
                CvmEstimate(cvm, oc).val = ToN(Cardinality(observed))
           /\ last.op = "estimate" => last.ret = ToN(Cardinality(observed))

\* C6's case: two distinct values fed to an estimator of capacity 3, and
\* estimate returned.
C6_Witness ==
    /\ Lone /\ cvm.capacity = 3 /\ Cardinality(observed) = 2
    /\ last.op = "estimate"

\* C7: a lone estimator fed one and the same value, once or more, with every
\* coin coming up true holds exactly one element, whatever its capacity.
C7_DuplicatesCollapse ==
    (Lone /\ heads /\ Cardinality(observed) = 1) => Size(cvm) = 1

\* C7's case: the value was added at least three times (three sweeps ran),
\* every coin came up true.
C7_Witness ==
    /\ Lone /\ heads /\ Cardinality(observed) = 1
    /\ LessN(ToN(2), cvm.rounds)

\* C8: the memory of a lone estimator holds only values passed to add.
C8_MemoryWithinObserved == Lone => cvm.memory \subseteq observed

\* C8's case: a sweep has discarded some but not all of the observed values.
C8_Witness ==
    /\ Lone /\ cvm.rounds # Zero
    /\ cvm.memory # {} /\ cvm.memory # observed

\* C9: CombinedCvm::new with len 0 panics and builds nothing; with len >= 1
\* it returns len estimators of the given capacity, each with an empty memory
\* and rounds 0.
C9_EnsembleConstruction ==
    /\ test.instances = Some(0) => kind = "none" /\ cvms = <<>>
    /\ (kind = "none" /\ panicked) => test.instances = Some(0)
    /\ kind = "CombinedCvm" =>
         /\ test.instances = Some(Len(cvms)) /\ Len(cvms) >= 1
         /\ \A i \in DOMAIN cvms : cvms[i].capacity = test.memory_capacity
         /\ last.op = "new" =>
              \A i \in DOMAIN cvms :
                 cvms[i] = [capacity |-> test.memory_capacity,
                            memory |-> {}, rounds |-> Zero]

\* C9's case: the construction with len 0 panicked.
C9_Witness == test.instances = Some(0) /\ panicked /\ kind = "none"

\* C10: between the ensemble's operations every member's add has been called
\* with exactly the values given to the ensemble, in that order.
C10_MembersInLockStep ==
    (kind = "CombinedCvm" /\ ~panicked)
        => \A i \in DOMAIN cvms : received[i] = fed

\* C10's case: an extend fed a second, different value to two or more members.
C10_Witness ==
    /\ kind = "CombinedCvm" /\ ~panicked /\ last.op = "extend"
    /\ Len(cvms) >= 2 /\ Len(fed) >= 2 /\ fed[1] # fed[2]

IsEnsemble == kind = "CombinedCvm"

\* What each member's estimate() returns, as integers.
MemberEstimates ==
    [i \in DOMAIN cvms |-> ToInt(CvmEstimate(cvms[i], TRUE).val)]
Among(s) == {s[i] : i \in DOMAIN s}
RECURSIVE SumInt(_)
SumInt(s) == IF s = <<>> THEN 0 ELSE Head(s) + SumInt(Tail(s))
MinInt(s) == CHOOSE x \in Among(s) : \A y \in Among(s) : x <= y
MaxInt(s) == CHOOSE x \in Among(s) : \A y \in Among(s) : y <= x
\* floor((sum - min - max) / (N - 2))
MeanWithoutExtremes(s) == (SumInt(s) - MinInt(s) - MaxInt(s)) \div (Len(s) - 2)

\* C11: for an ensemble of N >= 3 members, estimate() returns the truncated
\* mean of the member estimates after removing exactly one smallest and one
\* largest of them, floor((sum - min - max) / (N - 2)); members reporting
\* 10, 20, 30, 40 and 1000 (in any order) give 30.
C11_TrimmedMean ==
    (IsEnsemble /\ Len(cvms) >= 3) =>
        LET ests == MemberEstimates
            mean == ToN(MeanWithoutExtremes(ests))
        IN  /\ \A overflow_checks \in BOOLEAN :
                  CombinedEstimate(cvms, overflow_checks) =
                      [val |-> mean, panicked |-> FALSE]
            /\ last.op = "estimate" =>
                  /\ last.ret = mean
                  /\ (Len(cvms) = 5 /\ Among(ests) = {10, 20, 30, 40, 1000})
                        => last.ret = ToN(30)

C11_Witness ==
    /\ IsEnsemble /\ last.op = "estimate"
    /\ MemberEstimates = <<1000, 10, 40, 20, 30>>
    /\ last.ret = ToN(30)

\* C12: for an ensemble constructed with 1 or 2 members, estimate() never
\* returns an integer: the trimming leaves nothing to average and the call
\* ends in a panic, in every reachable state.
C12_ShortEnsemblePanics ==
    (IsEnsemble /\ Len(cvms) \in {1, 2}) =>
        /\ \A overflow_checks \in BOOLEAN :
              CombinedEstimate(cvms, overflow_checks).panicked
        /\ last.op # "estimate"

C12_Witness ==
    /\ IsEnsemble /\ Len(cvms) = 2 /\ panicked
    /\ Len(fed) >= 2 /\ last.op # "estimate"

\* C13: no operation of a lone estimator (new, add, extend, sweep, estimate)
\* fails: each completes without a panic, the increment of rounds in sweep
\* included.
C13_NoEstimatorOperationFails == Lone => ~panicked

\* The v-th smallest of s is the k-th when fewer than k members lie below it
\* and at least k lie at or below it.
SecondSmallest(s) ==
    CHOOSE v \in Among(s) :
        /\ Cardinality({i \in DOMAIN s : s[i] < v}) <= 1
        /\ Cardinality({i \in DOMAIN s : s[i] <= v}) >= 2
SecondLargest(s) ==
    CHOOSE v \in Among(s) :
        /\ Cardinality({i \in DOMAIN s : s[i] > v}) <= 1
        /\ Cardinality({i \in DOMAIN s : s[i] >= v}) >= 2

\* C20: for an ensemble of N >= 3 members, what estimate() returns is at
\* least the second-smallest and at most the second-largest member estimate,
\* and is the common value when all members report the same estimate.
C20_EstimateBetweenInnerMembers ==
    (IsEnsemble /\ Len(cvms) >= 3 /\ last.op = "estimate") =>
        LET ests == MemberEstimates
            ret == ToInt(last.ret)
        IN  /\ SecondSmallest(ests) <= ret /\ ret <= SecondLargest(ests)
            /\ MinInt(ests) <= ret /\ ret <= MaxInt(ests)
            /\ \A v \in Among(ests) : Among(ests) = {v} => ret = v

C20_Witness ==
    /\ IsEnsemble /\ Len(cvms) >= 4 /\ last.op = "estimate"
    /\ LET ests == MemberEstimates
           ret == ToInt(last.ret)
       IN  /\ MinInt(ests) < SecondSmallest(ests)
           /\ SecondSmallest(ests) < ret
           /\ ret < SecondLargest(ests)
           /\ SecondLargest(ests) < MaxInt(ests)

\* A step in which an add of the lone estimator returns: last' tells the
\* value added and the retention decision, the unprimed state is the one the
\* add was called in.
AddReturns == Lone /\ ~panicked' /\ last'.op = "add" /\ vars' # vars
\* The estimator after the insert/remove step of that add.
Mid == CvmMatch(cvm, last'.value, last'.kept)

\* C15: in add(v), when the retention decision is "do not retain" and v is
\* absent from memory, memory and rounds after add returns equal memory and
\* rounds before the call. Stated here for capacities >= 1 only, and already
\* that fails: memory may be at capacity when add is called (C1), and then
\* the add sweeps.
C15_NoChangeWhenDroppedAndAbsent ==
    [][(AddReturns /\ cvm.capacity >= 1
            /\ ~last'.kept /\ last'.value \notin cvm.memory)
          => (cvm'.memory = cvm.memory /\ cvm'.rounds = cvm.rounds)]_vars

\* C16: in add(v) with rounds = r, after the insert/remove step and before
\* any sweep, v is in memory if and only if all r coin flips came up true
\* (always, when r = 0), whether or not v was in memory before; no other
\* element changes membership in that step, and an add that did not sweep
\* returns with exactly that memory.
C16_MembershipFollowsCoins ==
    Lone =>
        /\ \A value \in Values, flips \in BOOLEAN :
              LET mid == CvmMatch(cvm, value, flips)
              IN  /\ value \in mid.memory <=> (cvm.rounds = Zero \/ flips)
                  /\ mid.memory \ {value} = cvm.memory \ {value}
                  /\ mid.rounds = cvm.rounds /\ mid.capacity = cvm.capacity
        /\ (last.op = "add" /\ ~last.swept /\ ~panicked) =>
              (last.value \in cvm.memory <=> last.kept)

C16_Witness ==
    /\ Lone /\ last.op = "add" /\ ~last.swept
    /\ last.had /\ ~last.kept
    /\ last.value \notin cvm.memory /\ cvm.memory # {}

\* C17: during one add, sweep runs if and only if memory.size() >= capacity
\* after the insert/remove step, and then exactly once: rounds grows by
\* exactly 1 in that add and by 0 otherwise.
C17_SweepsOnceWhenFull ==
    [][AddReturns =>
          /\ last'.swept <=> Size(Mid) >= cvm.capacity
          /\ cvm'.rounds = IF last'.swept THEN AddN(cvm.rounds, One)
                           ELSE cvm.rounds]_vars

\* C18: a sweep only thins memory: memory after it is exactly the subset of
\* memory before it whose coin came up true, capacity is unchanged, and rounds
\* is incremented by exactly 1 whatever the coins were. Stated of every sweep
\* an add can run in the current state.
C18_SweepOnlyThins ==
    Lone =>
        \A value \in Values, flips \in BOOLEAN :
            LET mid == CvmMatch(cvm, value, flips)
            IN  NeedsSweep(mid) =>
                    \A coins \in [mid.memory -> BOOLEAN],
                       overflow_checks \in BOOLEAN :
                        LET s == CvmSweep(mid, coins, overflow_checks)
                        IN  /\ ~s.panicked
                            /\ s.cvm.memory = {e \in mid.memory : coins[e]}
                            /\ s.cvm.capacity = mid.capacity
                            /\ s.cvm.rounds = AddN(mid.rounds, One)

=============================================================================
